---- MODULE Spec2Model ----
(***************************************************************************)
(* Model of build_bench.py: the revision sampler and batch reporter of     *)
(* daily_to_present, the build benchmarker benchmark_build, and the        *)
(* metrics reporter single_commit.                                         *)
(*                                                                         *)
(* Timestamps are integer seconds since the epoch (UTC), as in the code.   *)
(* Durations are measured on a clock that counts ticks of 1/TicksPerSecond *)
(* seconds, so that the integer truncation of the CSV ('%d') is visible.   *)
(***************************************************************************)
EXTENDS Integers, Sequences, FiniteSets, TLC

VARIABLES
    mode,            \* argv[1]: "daily_to_present" or "single_commit"
    start_time,      \* daily_to_present: start_time
    history,         \* the repository's revisions, HEAD first (git show HEAD~i)
    pc,              \* position of the process
    requested,       \* number of next(commit_generator) calls made so far
    last,            \* (last_time, last_hash)
    threshold_time,  \* daily_to_present: threshold_time
    to_benchmark,    \* daily_to_present: to_benchmark
    queue,           \* the sequence the for loop of line 160 iterates over
    token,           \* whether INFLUX_TOKEN is set in the environment
    qi,              \* number of items of queue the for loop has taken
    csv,             \* the lines written to the output file
    arg,             \* benchmark_build: commit_hash
    attempted,       \* the revisions benchmark_build was called with, in call order
    trace,           \* the operations the current call of benchmark_build has run
    failed,          \* the revisions during whose benchmark an operation failed
    now,             \* time.time(), in ticks
    durs,            \* benchmark_build: the six *_duration locals
    result,          \* the tuple returned by the last call of benchmark_build
    head,            \* the revision the working tree is checked out at
    trigger,         \* content of rebuild_trigger_file in the working tree
    cargo_toml,      \* content of cargo_toml_file in the working tree
    cache,           \* the profiles that have build artifacts in the build cache
    timestamp,       \* single_commit: timestamp
    pings,           \* number of health probes sent to the metrics store
    written,         \* the writes received by the metrics store
    trigger_at_head,       \* content of rebuild_trigger_file as committed
    stdout,          \* the messages single_commit printed before exit(1)
    shows,           \* number of git show commands single_commit has run
    health,          \* the answer of the last health probe ("none" before any)
    sigint           \* whether SIGINT was delivered to the process

inputs  == <<mode, start_time, history, token, trigger_at_head>>
sampler == <<requested, last, threshold_time, to_benchmark, queue>>
batch   == <<qi, csv>>
call    == <<arg, attempted>>
bench   == <<trace, failed, now, durs, result>>
tree    == <<head, trigger, cargo_toml, cache>>
metrics == <<timestamp, pings, written>>
observed == <<stdout, shows, health, sigint>>

vars == <<inputs, pc, sampler, batch, call, bench, tree, metrics, observed>>

----------------------------------------------------------------------------
\* Bounds of the model.

\* days since the epoch on which revisions may have been committed: 0..MaxDay
MaxDay == 5
\* commit instants per day: k * (86400 \div SlotsPerDay), k \in 0..SlotsPerDay-1
SlotsPerDay == 2
\* revisions in the history
MaxLen == 4

----------------------------------------------------------------------------
\* Program constants.

interval_in_seconds == 86400

----------------------------------------------------------------------------
\* Helpers.

RECURSIVE Reverse(_)
Reverse(s) == IF s = <<>> THEN <<>> ELSE Append(Reverse(Tail(s)), Head(s))

\* reversed() without the reversal
reversed_kept(s) == s

\* reversed(to_benchmark)
reversed(s) == Reverse(s)

\* datetime.utcfromtimestamp(t).weekday(): Monday is 0, Sunday is 6;
\* 1970-01-01 was a Thursday.
weekday(t) == ((t \div 86400) + 3) % 7

\* the UTC calendar day of a timestamp: floor(t / 86400)
DayOf(t) == t \div 86400

SetMax(S) == CHOOSE x \in S : \A y \in S : y <= x

\* the timestamps of S, most recent first
RECURSIVE Descending(_)
Descending(S) ==
    IF S = {} THEN <<>>
    ELSE <<SetMax(S)>> \o Descending(S \ {SetMax(S)})

Times(maxDay, slots) ==
    { d * 86400 + k * (86400 \div slots) : d \in 0..maxDay, k \in 0..(slots - 1) }

\* a revision: commit time and revision id (its distance from HEAD)
Commits(ts) == [ i \in 1..Len(ts) |-> [time |-> ts[i], hash |-> i - 1] ]

\* linear histories with strictly decreasing commit times
Histories(maxDay, slots, maxLen) ==
    { Commits(Descending(S)) :
        S \in { T \in SUBSET Times(maxDay, slots) :
                  Cardinality(T) >= 1 /\ Cardinality(T) <= maxLen } }

NoCommit == [time |-> -1, hash |-> -1]

----------------------------------------------------------------------------
\* commits(): the i-th next() runs git show HEAD~i, which fails past the root
\* commit; check_returncode then raises inside the generator.
HasCommit(i) == i < Len(history)
CommitAt(i) == history[i + 1]

\* the loop condition with >= in place of >
LoopCond_ge(last_time, start) == last_time >= start

\* the walk goes on for one interval past the start
LoopCond_one_interval_more(last_time, start) == last_time > start - interval_in_seconds

\* line 150: while last_time > start_time
LoopCond(last_time, start) == last_time > start

\* lines 154-156: the next threshold after an emission
RECURSIVE SkipWeekend(_)
SkipWeekend(t) ==
    IF weekday(t) > 4 THEN SkipWeekend(t - interval_in_seconds) ELSE t

\* the threshold is only moved off a weekend, never decremented
NextThreshold_no_decrement(t) == SkipWeekend(t)

\* the threshold moves back two intervals at a time
NextThreshold_two_intervals(t) == SkipWeekend(t - 2 * interval_in_seconds)

NextThreshold(t) == SkipWeekend(t - interval_in_seconds)

\* line 148
InitialThreshold(last_time) == last_time - (last_time % interval_in_seconds)

----------------------------------------------------------------------------
\* The working tree.  A file is a sequence of lines, a line a sequence of
\* tokens; the build configuration file is a sequence of text blocks.

\* the committed content of rebuild_trigger_file: the marker occurs twice in
\* its first marker-bearing line and again in a later line
CommittedTrigger ==
    << <<"other">>,
       <<"unreachable!", "other", "unreachable!">>,
       <<"unreachable!">> >>

\* the committed content of cargo_toml_file
CommittedCargoToml == <<"[workspace]">>

\* lines 19-25
quick_release_profile == "[profile.quick-release-tmp]"

\* `to_find in line`
Contains(line, to_find) == \E k \in 1..Len(line) : line[k] = to_find

\* line.replace(to_find, replace_with): every occurrence in the line
Replace(line, to_find, replace_with) ==
    [ k \in 1..Len(line) |-> IF line[k] = to_find THEN replace_with ELSE line[k] ]

\* replace_once without the break: every line is rewritten
replace_once_every_line(file, to_find, replace_with) ==
    [ i \in 1..Len(file) |-> Replace(file[i], to_find, replace_with) ]

\* lines 97-108: the first line that contains to_find is rewritten, every
\* other line is copied
replace_once(file, to_find, replace_with) ==
    LET hits == { i \in 1..Len(file) : Contains(file[i], to_find) } IN
    IF hits = {} THEN file
    ELSE LET first == CHOOSE i \in hits : \A j \in hits : i <= j IN
         [ file EXCEPT ![first] = Replace(file[first], to_find, replace_with) ]

\* lines 111-113
append(file, new_text) == Append(file, new_text)

\* git restore that leaves the file as it is
git_restore_kept(file, committed) == file

\* `git restore .`: a file of the working tree goes back to its committed content
git_restore(file, committed) == committed

----------------------------------------------------------------------------
\* Bounds of the clock.

\* a timed command takes at least one tick; the timed commands of one call
\* of benchmark_build take at most MaxExtra ticks more than that in total
MaxExtra == 1
\* ticks per second of the clock
TicksPerSecond == 2

----------------------------------------------------------------------------
\* benchmark_build

NoDurations ==
    [ debug_build |-> 0, release_build |-> 0, debug_rebuild |-> 0,
      release_rebuild |-> 0, quick_build |-> 0, quick_rebuild |-> 0 ]

BenchLabels ==
    { "checkout", "fetch_clean", "debug_build", "release_build", "perturb1",
      "debug_rebuild", "release_rebuild", "restore1", "clean", "append",
      "quick_build", "perturb2", "quick_rebuild", "restore2" }

\* check_returncode that never raises
check_returncode_ignored(ok, next) == next

\* p.check_returncode(): raises CalledProcessError on a non-zero exit status
check_returncode(ok, next) == IF ok THEN next ELSE "raised"

\* lines 93-94 with the durations in the order they were measured
ReturnValue_as_measured(d) ==
    << d.debug_build, d.release_build, d.debug_rebuild,
       d.release_rebuild, d.quick_build, d.quick_rebuild >>

\* lines 93-94
ReturnValue(d) ==
    << d.debug_build, d.debug_rebuild, d.release_build,
       d.release_rebuild, d.quick_build, d.quick_rebuild >>

\* an operation on the outside world was run and took d ticks
Ran(op, ok, d) ==
    /\ trace' = Append(trace, [op |-> op, ok |-> ok, dur |-> d])
    /\ now' = now + d
    /\ failed' = IF ok THEN failed ELSE failed \cup {arg}

\* the ticks beyond the first that the timed commands of t took
RECURSIVE ExtraTicks(_)
ExtraTicks(t) ==
    IF t = <<>> THEN 0
    ELSE (IF Head(t).dur > 1 THEN Head(t).dur - 1 ELSE 0) + ExtraTicks(Tail(t))

\* how long a timed command may take
Durations == 1..(1 + MaxExtra)

\* p = run(cmd, ...); p.check_returncode()
Command(at, cmd, ok, next) ==
    /\ pc = at
    /\ Ran(cmd, ok, 0)
    /\ pc' = check_returncode(ok, next)
    /\ UNCHANGED <<durs, result>>

\* x = time.time(); p = run(cmd, ...); p.check_returncode(); x = time.time() - x
Timed(at, cmd, ok, d, field, next) ==
    /\ pc = at
    /\ ExtraTicks(trace) + (d - 1) <= MaxExtra
    /\ Ran(cmd, ok, d)
    /\ pc' = check_returncode(ok, next)
    /\ durs' = IF pc' = next
               THEN LET started == now
                        finished == now + d
                    IN  [durs EXCEPT ![field] = finished - started]
               ELSE durs
    /\ UNCHANGED result

\* replace_once(rebuild_trigger_file, 'unreachable!', 'panic!'); open() raises
\* when the file does not exist at this revision
Perturb(at, ok, next) ==
    /\ pc = at
    /\ Ran("replace_once", ok, 0)
    /\ IF ok
       THEN /\ trigger' = replace_once(trigger, "unreachable!", "panic!")
            /\ pc' = next
       ELSE /\ pc' = "raised"
            /\ UNCHANGED trigger
    /\ UNCHANGED <<durs, result, head, cargo_toml, cache>>

\* lines 33-34: git checkout keeps the local modifications of the working tree
Checkout ==
    \E ok \in BOOLEAN :
        /\ Command("checkout", "git checkout", ok, "fetch_clean")
        /\ head' = IF ok THEN arg ELSE head
        /\ UNCHANGED <<trigger, cargo_toml, cache>>
        /\ UNCHANGED <<inputs, observed, sampler, batch, call, metrics>>

\* lines 36-38
FetchClean ==
    \E ok \in BOOLEAN :
        /\ Command("fetch_clean", "cargo fetch && cargo clean", ok, "debug_build")
        /\ cache' = IF ok THEN {} ELSE cache
        /\ UNCHANGED <<head, trigger, cargo_toml>>
        /\ UNCHANGED <<inputs, observed, sampler, batch, call, metrics>>

\* lines 40-44
DebugBuild ==
    \E ok \in BOOLEAN, d \in Durations :
        /\ Timed("debug_build", "cargo build", ok, d, "debug_build", "release_build")
        /\ cache' = IF ok THEN cache \cup {"debug"} ELSE cache
        /\ UNCHANGED <<head, trigger, cargo_toml>>
        /\ UNCHANGED <<inputs, observed, sampler, batch, call, metrics>>

\* lines 46-50
ReleaseBuild ==
    \E ok \in BOOLEAN, d \in Durations :
        /\ Timed("release_build", "cargo build --release", ok, d, "release_build", "perturb1")
        /\ cache' = IF ok THEN cache \cup {"release"} ELSE cache
        /\ UNCHANGED <<head, trigger, cargo_toml>>
        /\ UNCHANGED <<inputs, observed, sampler, batch, call, metrics>>

\* lines 52-53
PerturbFirst ==
    \E ok \in BOOLEAN :
        /\ Perturb("perturb1", ok, "debug_rebuild")
        /\ UNCHANGED <<inputs, observed, sampler, batch, call, metrics>>

\* lines 55-59
DebugRebuild ==
    \E ok \in BOOLEAN, d \in Durations :
        /\ Timed("debug_rebuild", "cargo build", ok, d, "debug_rebuild", "release_rebuild")
        /\ cache' = IF ok THEN cache \cup {"debug"} ELSE cache
        /\ UNCHANGED <<head, trigger, cargo_toml>>
        /\ UNCHANGED <<inputs, observed, sampler, batch, call, metrics>>

\* lines 61-65
ReleaseRebuild ==
    \E ok \in BOOLEAN, d \in Durations :
        /\ Timed("release_rebuild", "cargo build --release", ok, d, "release_rebuild", "restore1")
        /\ cache' = IF ok THEN cache \cup {"release"} ELSE cache
        /\ UNCHANGED <<head, trigger, cargo_toml>>
        /\ UNCHANGED <<inputs, observed, sampler, batch, call, metrics>>

\* lines 67-69
RestoreFirst ==
    \E ok \in BOOLEAN :
        /\ Command("restore1", "git restore .", ok, "clean")
        /\ trigger' = IF ok THEN git_restore(trigger, trigger_at_head) ELSE trigger
        /\ cargo_toml' = IF ok THEN git_restore(cargo_toml, CommittedCargoToml) ELSE cargo_toml
        /\ UNCHANGED <<head, cache>>
        /\ UNCHANGED <<inputs, observed, sampler, batch, call, metrics>>

\* lines 70-71
Clean ==
    \E ok \in BOOLEAN :
        /\ Command("clean", "cargo clean", ok, "append")
        /\ cache' = IF ok THEN {} ELSE cache
        /\ UNCHANGED <<head, trigger, cargo_toml>>
        /\ UNCHANGED <<inputs, observed, sampler, batch, call, metrics>>

\* lines 73-74
AppendProfile ==
    /\ pc = "append"
    /\ Ran("append", TRUE, 0)
    /\ cargo_toml' = append(cargo_toml, quick_release_profile)
    /\ pc' = "quick_build"
    /\ UNCHANGED <<durs, result, head, trigger, cache>>
    /\ UNCHANGED <<inputs, observed, sampler, batch, call, metrics>>

\* lines 75-78
QuickBuild ==
    \E ok \in BOOLEAN, d \in Durations :
        /\ Timed("quick_build", "cargo build --profile quick-release-tmp", ok, d,
                 "quick_build", "perturb2")
        /\ cache' = IF ok THEN cache \cup {"quick-release"} ELSE cache
        /\ UNCHANGED <<head, trigger, cargo_toml>>
        /\ UNCHANGED <<inputs, observed, sampler, batch, call, metrics>>

\* lines 80-81
PerturbSecond ==
    \E ok \in BOOLEAN :
        /\ Perturb("perturb2", ok, "quick_rebuild")
        /\ UNCHANGED <<inputs, observed, sampler, batch, call, metrics>>

\* lines 83-87
QuickRebuild ==
    \E ok \in BOOLEAN, d \in Durations :
        /\ Timed("quick_rebuild", "cargo build --profile quick-release-tmp", ok, d,
                 "quick_rebuild", "restore2")
        /\ cache' = IF ok THEN cache \cup {"quick-release"} ELSE cache
        /\ UNCHANGED <<head, trigger, cargo_toml>>
        /\ UNCHANGED <<inputs, observed, sampler, batch, call, metrics>>

\* lines 89-94: the last restore, then the return of the six durations
RestoreSecond ==
    \E ok \in BOOLEAN :
        /\ pc = "restore2"
        /\ Ran("git restore .", ok, 0)
        /\ pc' = check_returncode(ok, "returned")
        /\ result' = IF pc' = "returned" THEN ReturnValue(durs) ELSE result
        /\ trigger' = IF ok THEN git_restore(trigger, trigger_at_head) ELSE trigger
        /\ cargo_toml' = IF ok THEN git_restore(cargo_toml, CommittedCargoToml) ELSE cargo_toml
        /\ UNCHANGED <<durs, head, cache>>
        /\ UNCHANGED <<inputs, observed, sampler, batch, call, metrics>>

\* the call of benchmark_build(commit_hash): fresh locals
Call(commit_hash) ==
    /\ arg' = commit_hash
    /\ attempted' = Append(attempted, commit_hash)
    /\ trace' = <<>>
    /\ durs' = NoDurations
    /\ result' = <<>>
    /\ pc' = "checkout"
    /\ UNCHANGED <<failed, now>>

----------------------------------------------------------------------------
\* daily_to_present

\* line 138: the header row of the CSV
Header == "date,hash,debug build,debug rebuild,release build,release rebuild,qr build,qr rebuild"

\* lines 133-148: open the CSV, write its header, create the generator and fetch
\* the first revision
DailyStart ==
    /\ pc = "main"
    /\ mode = "daily_to_present"
    /\ requested' = requested + 1
    /\ IF HasCommit(requested)
       THEN /\ last' = CommitAt(requested)
            /\ threshold_time' = InitialThreshold(CommitAt(requested).time)
            /\ pc' = "loop"
       ELSE /\ pc' = "crashed"
            /\ UNCHANGED <<last, threshold_time>>
    /\ csv' = <<Header>>
    /\ UNCHANGED <<inputs, observed, to_benchmark, queue, qi, call, bench, tree, metrics>>

\* lines 150-158: one iteration of the sampler loop
LoopStep ==
    /\ pc = "loop"
    /\ LoopCond(last.time, start_time)
    /\ requested' = requested + 1
    /\ IF HasCommit(requested)
       THEN LET next == CommitAt(requested) IN
            /\ IF next.time < threshold_time
               THEN /\ to_benchmark' = Append(to_benchmark, last)
                    /\ threshold_time' = NextThreshold(threshold_time)
               ELSE UNCHANGED <<to_benchmark, threshold_time>>
            /\ last' = next
            /\ pc' = "loop"
       ELSE \* CalledProcessError propagates out of next(): uncaught
            /\ pc' = "crashed"
            /\ UNCHANGED <<last, threshold_time, to_benchmark>>
    /\ UNCHANGED <<inputs, observed, queue, batch, call, bench, tree, metrics>>

\* line 150 false: the walk is over; line 160 starts iterating reversed(to_benchmark)
LoopExit ==
    /\ pc = "loop"
    /\ ~LoopCond(last.time, start_time)
    /\ queue' = reversed(to_benchmark)
    /\ pc' = "for"
    /\ UNCHANGED <<inputs, observed, requested, last, threshold_time, to_benchmark>>
    /\ UNCHANGED <<batch, call, bench, tree, metrics>>

\* lines 165-167: the tuple is unpacked by position
Unpack(r) ==
    [ debug_build |-> r[1], debug_rebuild |-> r[2], release_build |-> r[3],
      release_rebuild |-> r[4], quick_build |-> r[5], quick_rebuild |-> r[6] ]

\* '%d' of a duration: whole seconds, truncated
WholeSeconds(d) == d \div TicksPerSecond

\* lines 168-172: '%s,%s,%d,%d,%d,%d,%d,%d\n'
Row(commit, u) ==
    [ date |-> DayOf(commit.time),
      hash |-> commit.hash,
      cols |-> << WholeSeconds(u.debug_build), WholeSeconds(u.debug_rebuild),
                  WholeSeconds(u.release_build), WholeSeconds(u.release_rebuild),
                  WholeSeconds(u.quick_build), WholeSeconds(u.quick_rebuild) >> ]

\* lines 160-167: the for loop takes the next sample and calls benchmark_build
ForNext ==
    /\ pc = "for"
    /\ qi < Len(queue)
    /\ qi' = qi + 1
    /\ Call(queue[qi + 1].hash)
    /\ UNCHANGED <<inputs, observed, sampler, csv, tree, metrics>>

\* line 160: the for loop is exhausted, daily_to_present returns
ForDone ==
    /\ pc = "for"
    /\ qi = Len(queue)
    /\ pc' = "done"
    /\ UNCHANGED <<inputs, observed, sampler, batch, call, bench, tree, metrics>>

\* lines 165-172: benchmark_build returned, the row is written
WriteRow ==
    /\ pc = "returned"
    /\ mode = "daily_to_present"
    /\ csv' = Append(csv, Row(queue[qi], Unpack(result)))
    /\ pc' = "for"
    /\ UNCHANGED <<inputs, observed, sampler, qi, call, bench, tree, metrics>>

\* a bare except: SystemExit is caught as well
except_BaseException(p) == p \in {"raised", "interrupted"}

\* line 173: `except Exception` catches what derives from Exception
\* (CalledProcessError, OSError), not SystemExit
except_Exception(p) == p = "raised"

\* the handler that ends the run at the first failure
BatchExcept_stop ==
    /\ pc = "raised"
    /\ mode = "daily_to_present"
    /\ pc' = "done"
    /\ UNCHANGED <<inputs, observed, sampler, batch, call, bench, tree, metrics>>

\* lines 173-174: except Exception: print, go on with the next sample
BatchExcept ==
    /\ except_Exception(pc)
    /\ mode = "daily_to_present"
    /\ pc' = "for"
    /\ UNCHANGED <<inputs, observed, sampler, batch, call, bench, tree, metrics>>

----------------------------------------------------------------------------
\* signal_handler

Ended == {"done", "crashed", "exited"}

\* lines 125-129: SIGINT makes the handler call exit(1), which raises SystemExit
\* at the point the process has reached; inside the try statement of lines
\* 163-172 it propagates through the except clause of line 173.  (What the
\* interrupted external command itself has already done is not modelled.)
Interrupt ==
    /\ pc \notin Ended
    /\ ~sigint
    /\ sigint' = TRUE
    /\ pc' = IF mode = "daily_to_present" /\ pc \in BenchLabels \cup {"returned"}
             THEN "interrupted"
             ELSE "exited"
    /\ UNCHANGED <<inputs, sampler, batch, call, bench, tree, metrics>>
    /\ UNCHANGED <<stdout, shows, health>>

\* SystemExit leaves the try statement uncaught: the process exits with status 1
InterruptExits ==
    /\ pc = "interrupted"
    /\ ~except_Exception(pc)
    /\ pc' = "exited"
    /\ UNCHANGED <<inputs, observed, sampler, batch, call, bench, tree, metrics>>

----------------------------------------------------------------------------
\* single_commit

\* the revision argv[2] names
Requested == history[1]

\* lines 197-221: the six points
Points(u, commit_hash, ts) ==
    << [ profile |-> "debug", build_type |-> "build",
         commit_hash |-> commit_hash, duration |-> u.debug_build, time |-> ts ],
       [ profile |-> "debug", build_type |-> "rebuild",
         commit_hash |-> commit_hash, duration |-> u.debug_rebuild, time |-> ts ],
       [ profile |-> "release", build_type |-> "build",
         commit_hash |-> commit_hash, duration |-> u.release_build, time |-> ts ],
       [ profile |-> "release", build_type |-> "rebuild",
         commit_hash |-> commit_hash, duration |-> u.release_rebuild, time |-> ts ],
       [ profile |-> "quick-release", build_type |-> "build",
         commit_hash |-> commit_hash, duration |-> u.quick_build, time |-> ts ],
       [ profile |-> "quick-release", build_type |-> "rebuild",
         commit_hash |-> commit_hash, duration |-> u.quick_rebuild, time |-> ts ] >>

\* the token is not looked at before the work starts
after_token_unchecked(tok) == "show"

\* lines 179-181: if not token: print, exit(1)
after_token(tok) == IF tok THEN "show" ELSE "exited"

\* lines 229, 178-181: timestamp is time.time(); without a token the process
\* prints and exits
SingleStart ==
    /\ pc = "main"
    /\ mode = "single_commit"
    /\ timestamp' = now
    /\ pc' = after_token(token)
    /\ stdout' = IF pc' = "exited"
                 THEN Append(stdout, "env var INFLUX_TOKEN is missing")
                 ELSE stdout
    /\ UNCHANGED <<inputs, sampler, batch, call, bench, tree, pings, written>>
    /\ UNCHANGED <<shows, health, sigint>>

\* lines 183-190: git show resolves the revision, then benchmark_build is called
SingleResolve ==
    /\ pc = "show"
    /\ shows' = shows + 1
    /\ \/ /\ Call(Requested.hash)
          /\ UNCHANGED <<inputs, sampler, batch, tree, metrics>>
       \/ /\ pc' = "raised"
          /\ UNCHANGED <<inputs, sampler, batch, call, bench, tree, metrics>>
    /\ UNCHANGED <<stdout, health, sigint>>

\* an exception nothing catches ends the process with a traceback
SingleUncaught ==
    /\ pc = "raised"
    /\ mode = "single_commit"
    /\ pc' = "crashed"
    /\ UNCHANGED <<inputs, observed, sampler, batch, call, bench, tree, metrics>>

\* the probe's answer is not looked at
after_ping_unchecked(healthy) == "write"

\* lines 193-195: if not client.ping(): print, exit(1)
after_ping(healthy) == IF healthy THEN "write" ELSE "exited"

\* lines 192-195: the health probe; exit(1) when it fails
SinglePing ==
    /\ pc = "returned"
    /\ mode = "single_commit"
    /\ pings' = pings + 1
    /\ \E healthy \in BOOLEAN :
          /\ health' = IF healthy THEN "healthy" ELSE "unhealthy"
          /\ pc' = after_ping(healthy)
          /\ stdout' = IF pc' = "exited"
                       THEN Append(stdout, "failed to connect to InfluxDB")
                       ELSE stdout
    /\ UNCHANGED <<inputs, sampler, batch, call, bench, tree, timestamp, written>>
    /\ UNCHANGED <<shows, sigint>>

\* lines 197-222: the six points are built and written in one write
SingleWrite ==
    /\ pc = "write"
    /\ written' = Append(written, Points(Unpack(result), arg, timestamp))
    /\ pc' = "done"
    /\ UNCHANGED <<inputs, observed, sampler, batch, call, bench, tree, timestamp, pings>>

----------------------------------------------------------------------------
\* the state of the process when __main__ starts, on a clean working tree
Fresh ==
    /\ pc = "main"
    /\ requested = 0
    /\ last = NoCommit
    /\ threshold_time = 0
    /\ to_benchmark = <<>>
    /\ queue = <<>>
    /\ qi = 0
    /\ csv = <<>>
    /\ arg = -1
    /\ attempted = <<>>
    /\ trace = <<>>
    /\ failed = {}
    /\ now = 0
    /\ durs = NoDurations
    /\ result = <<>>
    /\ head = 0
    /\ trigger = trigger_at_head
    /\ cargo_toml = CommittedCargoToml
    /\ cache = {}
    /\ timestamp = 0
    /\ pings = 0
    /\ written = <<>>
    /\ stdout = <<>>
    /\ shows = 0
    /\ health = "none"
    /\ sigint = FALSE

InitSampler ==
    /\ mode = "daily_to_present"
    /\ token = TRUE
    /\ history \in Histories(MaxDay, SlotsPerDay, MaxLen)
    /\ start_time \in Times(MaxDay, SlotsPerDay)
    /\ trigger_at_head = CommittedTrigger
    /\ Fresh

NextSampler == DailyStart \/ LoopStep \/ LoopExit

SpecSampler == InitSampler /\ [][NextSampler]_vars

----------------------------------------------------------------------------
\* The whole program, on the histories of days 0..BatchMaxDay with one commit
\* instant per day.

BatchMaxDay == 3

Init ==
    /\ mode \in {"daily_to_present", "single_commit"}
    /\ IF mode = "daily_to_present"
       THEN /\ token = TRUE
            /\ history \in Histories(BatchMaxDay, 1, MaxLen)
            /\ start_time \in Times(BatchMaxDay, 1)
       ELSE /\ token \in BOOLEAN
            /\ history = Commits(<<0>>)
            /\ start_time = 0
    /\ trigger_at_head = CommittedTrigger
    /\ Fresh

Next ==
    \/ DailyStart \/ LoopStep \/ LoopExit
    \/ ForNext \/ ForDone \/ WriteRow \/ BatchExcept
    \/ SingleStart \/ SingleResolve \/ SingleUncaught \/ SinglePing \/ SingleWrite
    \/ Interrupt \/ InterruptExits
    \/ Checkout \/ FetchClean \/ DebugBuild \/ ReleaseBuild \/ PerturbFirst
    \/ DebugRebuild \/ ReleaseRebuild \/ RestoreFirst \/ Clean \/ AppendProfile
    \/ QuickBuild \/ PerturbSecond \/ QuickRebuild \/ RestoreSecond

Spec == Init /\ [][Next]_vars

----------------------------------------------------------------------------
\* The perturbation of line 53 on every trigger file of at most MaxLines lines
\* of at most MaxTokens tokens.

MaxLines == 2
MaxTokens == 2

Tokens == {"unreachable!", "panic!", "other"}

SeqsUpTo(S, n) == UNION { [1..k -> S] : k \in 0..n }

Files == SeqsUpTo(SeqsUpTo(Tokens, MaxTokens), MaxLines)

\* single_commit has reached line 52 of benchmark_build: both builds succeeded
\* and took one tick each
InitReplace ==
    /\ mode = "single_commit"
    /\ token = TRUE
    /\ history = Commits(<<0>>)
    /\ start_time = 0
    /\ trigger_at_head \in Files
    /\ pc = "perturb1"
    /\ requested = 0
    /\ last = NoCommit
    /\ threshold_time = 0
    /\ to_benchmark = <<>>
    /\ queue = <<>>
    /\ qi = 0
    /\ csv = <<>>
    /\ arg = 0
    /\ attempted = <<0>>
    /\ trace = << [op |-> "git checkout", ok |-> TRUE, dur |-> 0],
                  [op |-> "cargo fetch && cargo clean", ok |-> TRUE, dur |-> 0],
                  [op |-> "cargo build", ok |-> TRUE, dur |-> 1],
                  [op |-> "cargo build --release", ok |-> TRUE, dur |-> 1] >>
    /\ failed = {}
    /\ now = 2
    /\ durs = [NoDurations EXCEPT !.debug_build = 1, !.release_build = 1]
    /\ result = <<>>
    /\ head = 0
    /\ trigger = trigger_at_head
    /\ cargo_toml = CommittedCargoToml
    /\ cache = {"debug", "release"}
    /\ timestamp = 0
    /\ pings = 0
    /\ written = <<>>
    /\ stdout = <<>>
    /\ shows = 1
    /\ health = "none"
    /\ sigint = FALSE

NextReplace == PerturbFirst

SpecReplace == InitReplace /\ [][NextReplace]_vars

----------------------------------------------------------------------------
\* Properties of the sampler (checked under SpecSampler).

Emits == Len(to_benchmark') > Len(to_benchmark)
Earliest == history[Len(history)]
WalkOver == pc \notin {"main", "loop", "crashed"}

\* C1: once the walk is over, no two samples were committed on the same UTC
\* calendar day (floor(timestamp / 86400)).
C1_OneSamplePerDay ==
    WalkOver =>
        \A i, j \in 1..Len(to_benchmark) :
            i # j => DayOf(to_benchmark[i].time) # DayOf(to_benchmark[j].time)

\* C2: whenever the loop emits (last_time, last_hash), last_time is at least
\* the threshold_time of that moment.
C2_SampleAtOrAfterThreshold ==
    [][Emits => last.time >= threshold_time]_vars

\* C3: no sample is emitted for a threshold that falls on a Saturday or a
\* Sunday (UTC).
C3_NoWeekendThreshold ==
    [][Emits => weekday(threshold_time) <= 4]_vars

\* C4: the timestamps of reversed(to_benchmark), the order in which the
\* revisions are benchmarked, are strictly increasing.
C4_OldestFirst ==
    WalkOver =>
        /\ Len(queue) = Len(to_benchmark)
        /\ \A i \in 1..Len(queue) : \E j \in 1..Len(to_benchmark) : queue[i] = to_benchmark[j]
        /\ \A i, j \in 1..Len(queue) : i < j => queue[i].time < queue[j].time

C4_Witness ==
    /\ pc = "for"
    /\ Len(queue) >= 3

\* C5: if the earliest revision was committed exactly at the start timestamp,
\* the loop ends as soon as that revision is `last`: nothing older is requested
\* from the stream, nothing is emitted from then on, and that revision is not
\* a sample.
C5_StopsAtStart ==
    [][ (Earliest.time = start_time) =>
          /\ requested' <= Len(history)
          /\ pc' # "crashed"
          /\ \A i \in 1..Len(to_benchmark') : to_benchmark'[i] # Earliest
          /\ (pc = "loop" /\ last = Earliest) =>
                 /\ pc' = "for"
                 /\ requested' = requested
                 /\ to_benchmark' = to_benchmark ]_vars

C5_Witness ==
    /\ Earliest.time = start_time
    /\ pc = "for"
    /\ last = Earliest
    /\ Len(history) >= 3
    /\ Len(to_benchmark) >= 1

\* C6: if every revision is newer than the start timestamp, the walk does not
\* end in an error (and the samples reach the benchmarking pass).
C6_ExhaustionIsClean ==
    (\A i \in 1..Len(history) : history[i].time > start_time) => pc # "crashed"

----------------------------------------------------------------------------
\* Properties of the benchmarker and of the reporters (checked under Spec).

\* the operations of benchmark_build in their documented order
StepOrder ==
    << "git checkout", "cargo fetch && cargo clean", "cargo build",
       "cargo build --release", "replace_once", "cargo build",
       "cargo build --release", "git restore .", "cargo clean", "append",
       "cargo build --profile quick-release-tmp", "replace_once",
       "cargo build --profile quick-release-tmp", "git restore ." >>

AllSucceeded == Len(trace) = Len(StepOrder) /\ \A i \in 1..Len(trace) : trace[i].ok
SomeFailed == \E i \in 1..Len(trace) : ~trace[i].ok

\* C7: the operations of one call run in the fixed order, each only after all
\* earlier ones succeeded; after a failure the call runs nothing more and
\* returns no durations.
C7_FixedOrderAbortOnFailure ==
    /\ Len(trace) <= Len(StepOrder)
    /\ \A i \in 1..Len(trace) :
          /\ trace[i].op = StepOrder[i]
          /\ i < Len(trace) => trace[i].ok
    /\ SomeFailed => (pc \notin BenchLabels /\ pc # "returned" /\ result = <<>>)
    /\ (pc = "returned" \/ result # <<>>) => AllSucceeded

C7_Witness ==
    /\ Len(trace) = 11
    /\ ~trace[11].ok
    /\ pc = "raised"

\* C8: whenever benchmark_build has returned its durations, the working tree
\* is at the target revision with the trigger file and the build configuration
\* file in their committed state.
C8_CleanTreeOnReturn ==
    pc = "returned" =>
        /\ head = arg
        /\ trigger = trigger_at_head
        /\ cargo_toml = CommittedCargoToml

\* a call returns after the call before it failed
C8_Witness ==
    /\ pc = "returned"
    /\ Len(attempted) >= 2
    /\ attempted[Len(attempted) - 1] \in failed

\* the calls of benchmark_build that are over
Finished ==
    IF pc \in BenchLabels \cup {"returned", "raised"}
    THEN SubSeq(attempted, 1, Len(attempted) - 1)
    ELSE attempted

Succeeded(h) == h \notin failed

\* C9: batch mode attempts the samples once each, oldest first; a failed
\* benchmark writes no row and does not end the run; after the header the CSV
\* has exactly the rows of the samples whose benchmark succeeded, in order.
C9_BatchSkipsFailures ==
    mode = "daily_to_present" /\ WalkOver /\ ~sigint =>
        /\ qi = Len(attempted)
        /\ attempted = [ i \in 1..qi |-> queue[i].hash ]
        /\ csv[1] = Header
        /\ [ i \in 1..(Len(csv) - 1) |-> csv[i + 1].hash ] = SelectSeq(Finished, Succeeded)
        /\ \A i \in 2..Len(csv) :
              \E k \in 1..Len(queue) :
                  csv[i].hash = queue[k].hash /\ csv[i].date = DayOf(queue[k].time)
        /\ pc = "done" => attempted = [ i \in 1..Len(to_benchmark) |->
                                          to_benchmark[Len(to_benchmark) + 1 - i].hash ]

\* the run is over, the first benchmark failed and the next one succeeded
C9_Witness ==
    /\ mode = "daily_to_present"
    /\ pc = "done"
    /\ Len(attempted) >= 2
    /\ attempted[1] \in failed
    /\ attempted[2] \notin failed
    /\ Len(csv) = 2

\* how long the n-th run of cmd in the current call took
RECURSIVE NthRun(_, _, _)
NthRun(cmd, n, from) ==
    IF trace[from].op = cmd
    THEN IF n = 1 THEN trace[from].dur ELSE NthRun(cmd, n - 1, from + 1)
    ELSE NthRun(cmd, n, from + 1)

\* the durations of the six build commands, in the documented order
Measured ==
    << NthRun("cargo build", 1, 1), NthRun("cargo build", 2, 1),
       NthRun("cargo build --release", 1, 1), NthRun("cargo build --release", 2, 1),
       NthRun("cargo build --profile quick-release-tmp", 1, 1),
       NthRun("cargo build --profile quick-release-tmp", 2, 1) >>

Tags ==
    << <<"debug", "build">>, <<"debug", "rebuild">>, <<"release", "build">>,
       <<"release", "rebuild">>, <<"quick-release", "build">>,
       <<"quick-release", "rebuild">> >>

\* C10: position i of the returned tuple, column i of the CSV row and the
\* i-th point (tagged with the i-th (profile, build_type) pair) carry the
\* duration of the build command of that profile and type.
C10_DurationsInDocumentedOrder ==
    /\ result # <<>> => result = Measured
    /\ (mode = "daily_to_present" /\ pc = "for" /\ result # <<>>) =>
          csv[Len(csv)].cols = [ i \in 1..6 |-> Measured[i] \div TicksPerSecond ]
    /\ \A w \in 1..Len(written) :
          /\ Len(written[w]) = 6
          /\ \A i \in 1..6 :
                /\ written[w][i].profile = Tags[i][1]
                /\ written[w][i].build_type = Tags[i][2]
                /\ written[w][i].duration = Measured[i]

\* the points were written and the debug rebuild took longer than the
\* release build
C10_Witness ==
    /\ Len(written) = 1
    /\ written[1][2].duration > written[1][3].duration

\* C11: in single-revision mode without a token the process only reports the
\* missing variable and exits: no health probe, no version-control or build
\* command, no point.
C11_NoTokenNoWork ==
    (mode = "single_commit" /\ ~token) =>
        /\ pc \in {"main", "exited"}
        /\ shows = 0 /\ requested = 0
        /\ attempted = <<>> /\ trace = <<>> /\ cache = {}
        /\ pings = 0 /\ health = "none"
        /\ written = <<>>
        /\ (pc = "exited" /\ ~sigint) => stdout = <<"env var INFLUX_TOKEN is missing">>

C11_Witness ==
    /\ mode = "single_commit" /\ ~token
    /\ pc = "exited"
    /\ stdout = <<"env var INFLUX_TOKEN is missing">>

AllPairs ==
    { <<p, b>> : p \in {"debug", "release", "quick-release"}, b \in {"build", "rebuild"} }

\* C12: points are written only with a token, after every step of
\* benchmark_build succeeded and the probe answered healthy; a failed probe or
\* a failed step means nothing is ever written; what is written is a single
\* write of six points, one per (profile, build_type), with one timestamp.
C12_WriteOnlyWhenHealthy ==
    /\ written # <<>> =>
          /\ mode = "single_commit" /\ token
          /\ AllSucceeded
          /\ pings = 1 /\ health = "healthy"
          /\ Len(written) = 1 /\ Len(written[1]) = 6
          /\ { <<written[1][i].profile, written[1][i].build_type>> : i \in 1..6 } = AllPairs
          /\ \A i \in 1..6 : written[1][i].time = timestamp
    /\ (health = "unhealthy" \/ SomeFailed \/ ~token) => written = <<>>

C12_Witness ==
    /\ pc = "done"
    /\ Len(written) = 1
    /\ health = "healthy"

\* C13: from the delivery of SIGINT on, the process is exiting: no external
\* command runs, no revision is benchmarked, no CSV row and no point is
\* written; the batch handler does not swallow the interrupt.
C13_InterruptEndsRun ==
    [][ sigint' =>
          /\ pc' \in {"interrupted", "exited"}
          /\ UNCHANGED <<trace, attempted, qi, csv, requested, shows, pings, written>>
          /\ UNCHANGED <<head, trigger, cargo_toml, cache>> ]_vars

\* the batch run was interrupted in the middle of a benchmark and has exited
C13_Witness ==
    /\ mode = "daily_to_present"
    /\ sigint
    /\ pc = "exited"
    /\ Len(trace) \in 1..13
    /\ ~SomeFailed
    /\ qi < Len(queue)

----------------------------------------------------------------------------
\* Properties of replace_once (checked under SpecReplace).

\* the lines of file f that contain the marker
MarkerLines(f) == { i \in 1..Len(f) : \E k \in 1..Len(f[i]) : f[i][k] = "unreachable!" }

\* the number of occurrences of token t in file f
Occurrences(f, t) ==
    Cardinality(UNION { { <<i, k>> : k \in { n \in 1..Len(f[i]) : f[i][n] = t } } :
                        i \in 1..Len(f) })

Perturbed == pc = "debug_rebuild"

\* C14: replace_once changes exactly one line, the first one that contains the
\* marker; every other line and the number of lines stay as they were.
C14_OneLineModified ==
    (Perturbed /\ MarkerLines(trigger_at_head) # {}) =>
        /\ Len(trigger) = Len(trigger_at_head)
        /\ Cardinality({ i \in 1..Len(trigger) : trigger[i] # trigger_at_head[i] }) = 1
        /\ \A i \in 1..Len(trigger) :
              trigger[i] # trigger_at_head[i] =>
                  /\ i \in MarkerLines(trigger_at_head)
                  /\ \A j \in MarkerLines(trigger_at_head) : i <= j

\* the marker was in two lines and is still in the later one
C14_Witness ==
    /\ Perturbed
    /\ Cardinality(MarkerLines(trigger_at_head)) = 2
    /\ MarkerLines(trigger) = {2}

\* C15: replace_once turns exactly one occurrence of the marker into the
\* replacement.
C15_OneOccurrenceReplaced ==
    (Perturbed /\ MarkerLines(trigger_at_head) # {}) =>
        /\ Occurrences(trigger, "unreachable!") = Occurrences(trigger_at_head, "unreachable!") - 1
        /\ Occurrences(trigger, "panic!") = Occurrences(trigger_at_head, "panic!") + 1

----------------------------------------------------------------------------
\* The working tree across the benchmarks of a batch (checked under Spec).

\* the profile each timed rebuild rebuilds
RebuildProfile ==
    [ debug_rebuild |-> "debug", release_rebuild |-> "release",
      quick_rebuild |-> "quick-release" ]

\* C17: whenever a timed rebuild is about to run, the trigger file is the
\* committed file with the perturbation applied once, and the build cache
\* holds a finished build of the rebuild's profile.
C17_RebuildAfterOnePerturbation ==
    pc \in DOMAIN RebuildProfile =>
        /\ trigger = replace_once(trigger_at_head, "unreachable!", "panic!")
        /\ RebuildProfile[pc] \in cache

\* C18: in batch mode the working tree is clean whenever benchmark_build is
\* about to check a revision out: the trigger file and the configuration file
\* are as committed.
C18_CleanTreeAtCheckout ==
    (mode = "daily_to_present" /\ pc = "checkout") =>
        /\ trigger = trigger_at_head
        /\ cargo_toml = CommittedCargoToml

----------------------------------------------------------------------------
\* Further properties of the sampler (checked under SpecSampler).

\* C16: during the loop threshold_time never increases, it moves only on an
\* emission, and every emission moves it back by at least one interval: no
\* two samples are emitted for the same threshold.
C16_ThresholdsDecrease ==
    [][ pc = "loop" =>
          /\ threshold_time' <= threshold_time
          /\ Emits => threshold_time' <= threshold_time - interval_in_seconds
          /\ threshold_time' # threshold_time => Emits ]_vars

\* two samples were emitted and the threshold has skipped a weekend
C16_Witness ==
    /\ pc = "loop"
    /\ Len(to_benchmark) = 2
    /\ threshold_time <= InitialThreshold(history[1].time) - 4 * interval_in_seconds

\* the walk has gone past revision number i of the history
Passed(i) == pc \in {"loop", "for", "crashed"} /\ last.time < history[i].time

\* C19: the oldest revision of a Monday-to-Friday day that is newer than the
\* start and has an older revision behind it is a sample once the walk has
\* passed it.
C19_WeekdaysCovered ==
    \A i \in 1..(Len(history) - 1) :
        ( /\ weekday(history[i].time) <= 4
          /\ DayOf(history[i + 1].time) < DayOf(history[i].time)
          /\ history[i].time > start_time
          /\ Passed(i) )
        => \E k \in 1..Len(to_benchmark) : to_benchmark[k] = history[i]

\* Friday's oldest revision was sampled after a gap and a weekend skip
C19_Witness ==
    /\ pc = "for"
    /\ Len(history) = 4
    /\ weekday(history[1].time) = 1
    /\ weekday(history[2].time) = 6
    /\ weekday(history[3].time) = 4
    /\ history[3].time > start_time
    /\ \E k \in 1..Len(to_benchmark) : to_benchmark[k] = history[3]

\* C20: every sample is newer than the start timestamp, and the revision the
\* walk stops on (the first one not newer than the start) is not a sample.
C20_SamplesAfterStart ==
    /\ \A k \in 1..Len(to_benchmark) : to_benchmark[k].time > start_time
    /\ pc = "for" =>
          /\ last.time <= start_time
          /\ \A i \in 1..Len(history) : history[i].time > last.time => history[i].time > start_time
          /\ \A k \in 1..Len(to_benchmark) : to_benchmark[k] # last

\* the walk stopped on a revision committed at the start timestamp, before
\* the end of the history
C20_Witness ==
    /\ pc = "for"
    /\ last.time = start_time
    /\ last # Earliest
    /\ Len(to_benchmark) >= 2

====
